---- MODULE Spec2Model ----
(***************************************************************************)
(* Sport_card: two marketplace harvesters (scrape_vinted.py,               *)
(* scrape_catawiki.py) and the combined scheduler (run_both_scrapers.py).  *)
(*                                                                         *)
(* The process is single-threaded.  One step of the model is one external  *)
(* call of the program (quota check, marker write, browser start, page     *)
(* fetch, the handling of one listing, browser quit, sleep) together with  *)
(* all the local computation that follows it up to the next external call. *)
(***************************************************************************)
EXTENDS Integers, Sequences, FiniteSets, TLC

(* ------------------------------ bounds -------------------------------- *)

\* Number of sleeps a run of the scheduler loop is followed for.
MaxCycles == 1

\* Pages per harvest: stands for VINTED_MAX_PAGES / max_pages (50 by default).
MaxPages == 2

\* Cards parsed from one page.
MaxItems == 2

\* Stretches of time a token cache is followed over.
MaxTicks == 3

\* Item summaries in one search response.
MaxSummaries == 3

(* ------------------------- program constants -------------------------- *)

VINTED_MIN_LIKES == 10

CATAWIKI_MIN_LIKES == 10

SLEEP_SECONDS == 10800

VINTED_SLEEP == 3600

CATAWIKI_SLEEP == 1800

\* data.get("expires_in", 7200)
DEFAULT_EXPIRES_IN == 7200

\* now + float(expires_in) - 60.0
EXPIRY_MARGIN == 60

\* query.strip()[:350]
MAX_QUERY_CHARS == 350

\* max(1, min(int(limit), 50))
MAX_LIMIT == 50

\* search_ebay_current_listings(title[:200], limit=5)
TITLE_CHARS == 200

HARVEST_LIMIT == 5

VINTED_MAX_PAGES == MaxPages

max_pages == MaxPages

(* ------------------------------ inputs -------------------------------- *)

Sources == {"vinted", "catawiki"}

Modes == {"both", "vinted", "catawiki"}

\* Listing ids the marketplaces hand out; 0 stands for "no id" (None, or no
\* match of the URL pattern).
Ids == {1, 2}

MaybeIds == {0} \cup Ids

\* The favourite count parsed from a card.
LikesValues == {9, 10}

\* A title is modelled by its 4-digit token (0: the title has none).
TitleYears == {0, 1960, 2022}

\* The values scrape_vinted.get_ebay_browse_remaining() can return: the calls
\* left on the reference API (0 and below: none).
get_ebay_browse_remaining == {-1, 0, 1}

\* What a page parses to: the likes of its cards, in page order.
RECURSIVE SeqsUpTo(_, _)
SeqsUpTo(S, n) ==
  IF n = 0 THEN {<<>>}
  ELSE LET shorter == SeqsUpTo(S, n - 1)
       IN shorter \cup {Append(s, x) : s \in {t \in shorter : Len(t) = n - 1}, x \in S}

PageContents == SeqsUpTo(LikesValues, MaxItems)

\* The access_token of a token response; 0 stands for a missing or empty one
\* (None or "", both falsy).
TokenValues == {0, 1, 2}

\* The expires_in of a token response: <<>> when the key is absent.
ExpiresIn == {<<>>, <<7200>>, <<7201>>}

\* What the token endpoint answers: resp.ok and the fields of resp.json().
Responses == [ok : BOOLEAN, access_token : TokenValues, expires_in : ExpiresIn]

\* Seconds that pass between two calls of get_ebay_access_token.
Deltas == {10, 140, 7000}

\* The 4-digit token of the titles the year patterns are tried on.
Years == {1899, 1949, 1950, 1969, 1970, 2022, 2030, 2031, 2049, 2050}

Whitespace == {" ", "\t"}

\* A query of 351 letters behind one blank.
LongQuery == [i \in 1..352 |-> IF i = 1 THEN " " ELSE "a"]

\* The query argument of search_ebay_current_listings, as a sequence of
\* characters (<<>> also stands for None).
Queries == {<<>>, <<" ", "\t">>, <<" ", "a", " ">>, LongQuery}

\* The limit argument of search_ebay_current_listings.
Limits == {0, 2, 51}

\* price.get("value"): absent (None), a text float() rejects, or a number
\* (in hundredths).
PriceValues ==
  {[kind |-> "none", n |-> 0], [kind |-> "text", n |-> 0],
   [kind |-> "number", n |-> 800], [kind |-> "number", n |-> 1250]}

\* The item summaries a response is made of: the price of each ("" for a
\* currency that is absent).
ItemSummaries ==
  {[value |-> [kind |-> "none", n |-> 0], currency |-> "EUR"],
   [value |-> [kind |-> "text", n |-> 0], currency |-> "EUR"],
   [value |-> [kind |-> "number", n |-> 1250], currency |-> "EUR"],
   [value |-> [kind |-> "number", n |-> 800], currency |-> "EUR"],
   [value |-> [kind |-> "number", n |-> 1250], currency |-> "eur"],
   [value |-> [kind |-> "number", n |-> 800], currency |-> ""]}

\* data.get("total"): <<>> when the key is absent.
Totals == {<<>>, <<0>>, <<7>>}

\* resp.json() of a successful search.
SearchResponses ==
  [itemSummaries : SeqsUpTo(ItemSummaries, MaxSummaries), total : Totals]

\* The responses with at most one item summary.
ShortResponses == {d \in SearchResponses : Len(d.itemSummaries) <= 1}

(* ------------------------------- state -------------------------------- *)

VARIABLES
  mode,        \* which entry point runs: run_both_scrapers.main or a run_forever
  pc,          \* position of the scheduler loop
  cycle,       \* sleeps performed so far
  clock,       \* wall clock, seconds since the process started
  remaining,   \* result of the last quota check
  marker,      \* per source: <<>> or <<lastUpdateStartedAt>>
  events,      \* what the current cycle has done so far, in order
  hpc,         \* position inside the running harvest
  page,        \* number of the last page requested in this harvest
  liked,       \* likes of the liked cards of the page still to be handled
  hadRaw,      \* the last page parsed to at least one card
  hadLiked,    \* the last page had at least one liked card
  exc,         \* an exception is propagating out of the harvest
  stop,        \* why the page loop was left
  lastOutcome, \* what happened to the last card handled, with the doc it upserted
  driverOpen,  \* a browser session exists
  store,       \* the documents of collection MONGO_COLLECTION, in insertion order
  creds,       \* EBAY_CLIENT_ID and EBAY_CLIENT_SECRET are both set
  ebay_token,  \* per module: its global _ebay_token (0: None)
  ebay_token_expiry, \* per module: its global _ebay_token_expiry
  obtained,    \* per module: when its last exchange succeeded, and what it gave
  lastCall,    \* the last call of get_ebay_access_token since time last passed
  ticks,       \* stretches of time passed so far
  spc,         \* position inside the running search_ebay_current_listings call
  card,        \* the card whose enrichment the call is, and what became of it
  query,       \* the query argument of the call
  limit,       \* the limit argument of the call
  sent,        \* <<>> or <<params>>: the search request the call has sent
  data,        \* <<>> or <<resp.json()>>: the successful response it got
  band,        \* what the call gave its caller
  site,        \* the pages the marketplace serves, each the cards it parses to
  rpc,         \* "idle", then "killed" once a harvest was killed, then "done"
  partial,     \* the store as the killed harvest left it
  ref          \* the store as one harvest run to its end would have left it

vars == <<mode, pc, cycle, clock, remaining, marker, events, hpc, page,
          liked, hadRaw, hadLiked, exc, stop, lastOutcome, driverOpen, store,
          creds, ebay_token, ebay_token_expiry, obtained, lastCall, ticks,
          spc, card, query, limit, sent, data, band, site, rpc, partial, ref>>

config == <<mode>>

rerun == <<site, rpc, partial, ref>>

sched == <<cycle, clock, remaining, marker>>

walk == <<page, liked, hadRaw, hadLiked, exc, stop, lastOutcome>>

oauth == <<creds, ebay_token, ebay_token_expiry, obtained, lastCall, ticks>>

pipeline == <<pc, cycle, remaining, marker, events, hpc, walk, driverOpen, store>>

client == <<spc, card, query, limit, sent, data, band>>

loops == <<pc, cycle, remaining, marker, events, hpc, walk, driverOpen>>

(* ----------------------------- helpers -------------------------------- *)

Min(S) == CHOOSE x \in S : \A y \in S : x <= y

\* The digits of the title's 4-digit token, as the patterns read them.
Digits(y) == <<y \div 1000, (y \div 100) % 10, (y \div 10) % 10, y % 10>>

\* The title of a card: its year token and some text.
Title(y) ==
  [i \in 1..4 |-> <<"0", "1", "2", "3", "4", "5", "6", "7", "8", "9">>[Digits(y)[i] + 1]]
    \o <<" ", "a">>

title_has_year_203x(y) ==
  LET d == Digits(y)
  IN \/ d[1] = 1 /\ d[2] = 9 /\ d[3] \in 7..9
     \/ d[1] = 2 /\ d[2] = 0 /\ d[3] \in 0..3

\* re.search(r"\b(19[7-9]\d|20[0-2]\d|2030)\b", title)
title_has_year(y) ==
  LET d == Digits(y)
  IN \/ d[1] = 1 /\ d[2] = 9 /\ d[3] \in 7..9
     \/ d[1] = 2 /\ d[2] = 0 /\ d[3] \in 0..2
     \/ d = <<2, 0, 3, 0>>

\* re.search(r"\b(19[5-9]\d|20[0-4]\d)\b", title)
catawiki_title_has_year(y) ==
  LET d == Digits(y)
  IN \/ d[1] = 1 /\ d[2] = 9 /\ d[3] \in 5..9
     \/ d[1] = 2 /\ d[2] = 0 /\ d[3] \in 0..4

\* [raw for raw in items if (raw.get("likes") or 0) >= VINTED_MIN_LIKES]
vinted_liked(items) == SelectSeq(items, LAMBDA l : l >= VINTED_MIN_LIKES)

\* [it for it in items if it.get("likes", 0) >= 10]
catawiki_liked(items) == SelectSeq(items, LAMBDA l : l >= CATAWIKI_MIN_LIKES)

\* update_one as a plain replace: createdAt is written on every call.
update_one_overwrite(col, doc, now) ==
  LET hits == {i \in 1..Len(col) : col[i].id = doc.id}
      full == [id |-> doc.id, title |-> doc.title, likes |-> doc.likes,
               source |-> doc.source, updatedAt |-> doc.updatedAt, createdAt |-> now]
  IN IF hits = {} THEN Append(col, full) ELSE [col EXCEPT ![Min(hits)] = full]

\* update_one with a second datetime.now() for createdAt, taken after the doc
\* was built.
update_one_second_now(col, doc, now) ==
  LET hits == {i \in 1..Len(col) : col[i].id = doc.id}
  IN IF hits = {}
     THEN Append(col, [id |-> doc.id, title |-> doc.title, likes |-> doc.likes,
                       source |-> doc.source, updatedAt |-> doc.updatedAt,
                       createdAt |-> now + 1])
     ELSE [col EXCEPT ![Min(hits)] =
             [id |-> doc.id, title |-> doc.title, likes |-> doc.likes,
              source |-> doc.source, updatedAt |-> doc.updatedAt,
              createdAt |-> @.createdAt]]

\* col.update_one({"id": id}, {"$set": doc, "$setOnInsert": {"createdAt": now}},
\*                upsert=True): the first document whose id matches gets doc's
\* fields and keeps the rest; with no match, doc plus createdAt is inserted.
update_one(col, doc, now) ==
  LET hits == {i \in 1..Len(col) : col[i].id = doc.id}
  IN IF hits = {}
     THEN Append(col, [id |-> doc.id, title |-> doc.title, likes |-> doc.likes,
                       source |-> doc.source, updatedAt |-> doc.updatedAt,
                       createdAt |-> now])
     ELSE [col EXCEPT ![Min(hits)] =
             [id |-> doc.id, title |-> doc.title, likes |-> doc.likes,
              source |-> doc.source, updatedAt |-> doc.updatedAt,
              createdAt |-> @.createdAt]]

\* save_vinted_last_update(t) / save_catawiki_last_update(t): the source's
\* lastUpdateStartedAt in the store becomes t.
save_last_update(m, src, t) == [m EXCEPT ![src] = <<t>>]

\* time.sleep at the end of a cycle.
interval ==
  IF mode = "both" THEN SLEEP_SECONDS
  ELSE IF mode = "vinted" THEN VINTED_SLEEP ELSE CATAWIKI_SLEEP

\* The scheduler with no handler around the harvest: an exception ends the loop.
after_harvest_reraise(src, raised) ==
  IF raised THEN "crashed"
  ELSE IF mode = "both" /\ src = "vinted" THEN "save_catawiki" ELSE "sleep"

\* The scheduler with one handler around both harvests: an exception of the
\* first source ends the cycle.
after_harvest_skip_rest(src, raised) ==
  IF raised THEN "sleep"
  ELSE IF mode = "both" /\ src = "vinted" THEN "save_catawiki" ELSE "sleep"

\* Where the scheduler goes when the harvest of src returns or raises: both
\* run_cycle and run_forever wrap the call in try/except Exception.
after_harvest(src, raised) ==
  IF mode = "both" /\ src = "vinted" THEN "save_catawiki" ELSE "sleep"

\* The gate with "<" for "<=": a remaining of 0 lets the cycle run.
quota_gate_lt(r) == IF r < 0 THEN "sleep" ELSE "save_vinted"

\* run_cycle: "if remaining <= 0: ... return", else on to the first source.
quota_gate(r) == IF r <= 0 THEN "sleep" ELSE "save_vinted"

\* The loop with one page more: range(1, max_pages + 2).
next_page_le(p, maxp) == IF p <= maxp THEN "fetch" ELSE "quit"

\* The for loop over range(1, max_pages + 1) after the last card of a page.
next_page(p, maxp) == IF p < maxp THEN "fetch" ELSE "quit"

\* Outcomes of search_ebay_current_listings as the harvest sees them: it raises
\* (credentials, token exchange, non-success search, transport), returns a band
\* without listings, or returns a band with listings.
EbayOutcomes == {"error", "empty", "band"}

\* col.update_one returns or raises.
DbOutcomes == {"ok", "error"}

\* scrape_once without the check on liked.
vinted_page_verdict_raw_only(rawN, likedN) ==
  IF rawN = 0 THEN "no_items" ELSE "none"

\* scrape_once: the checks between fetching a page and handling its cards.
vinted_page_verdict(rawN, likedN) ==
  IF rawN = 0 THEN "no_items"
  ELSE IF likedN = 0 THEN "no_liked" ELSE "none"

\* scrape_category: the only check is the one on liked_items.
catawiki_page_verdict(rawN, likedN) ==
  IF likedN = 0 THEN "no_liked" ELSE "none"

\* scrape_once: except Exception around fetch_vinted_page_html: print, break.
vinted_fetch_raises == [hpc |-> "quit", exc |-> FALSE, stop |-> "fetch_error"]

\* scrape_category: fetch_page_html is called with no handler around it, so
\* the exception leaves the loop through the finally block.
catawiki_fetch_raises == [hpc |-> "quit", exc |-> TRUE, stop |-> "fetch_error"]

\* The card loop without "if not ebay.get('listings'): continue".
card_outcome_keeps_empty(hasYear, id, ebay, db) ==
  IF ~hasYear THEN "no_year"
  ELSE IF id = 0 THEN "no_id"
  ELSE IF ebay = "error" THEN "ebay_error"
  ELSE IF db = "error" THEN "upsert_failed"
  ELSE "upserted"

\* The body of "for raw in liked" / "for row in liked_items" for one card: the
\* chain of "continue"s down to update_one.
card_outcome(hasYear, id, ebay, db) ==
  IF ~hasYear THEN "no_year"
  ELSE IF id = 0 THEN "no_id"
  ELSE IF ebay = "error" THEN "ebay_error"
  ELSE IF ebay = "empty" THEN "no_listings"
  ELSE IF db = "error" THEN "upsert_failed"
  ELSE "upserted"

\* doc = {...} as both loops build it ("$set": doc).
new_doc(src, id, y, likes, now) ==
  [id |-> id, title |-> y, likes |-> likes, source |-> src, updatedAt |-> now]

\* A card that is skipped builds no doc.
no_doc == new_doc("vinted", 0, 0, 0, 0)

\* No card has been handled since the page was fetched.
no_outcome == [kind |-> "none", doc |-> no_doc, ebay |-> "none"]

\* The card loop with no handler around search_ebay_current_listings.
card_raises_on_ebay(outcome) == outcome \in {"upsert_failed", "ebay_error"}

\* update_one inside a handler of its own: its failure skips the card.
card_raises_never(outcome) == FALSE

\* Which outcomes of a card leave the loops as an exception: every "continue"
\* goes on with the next card; only update_one has no handler around it.
card_raises(outcome) == outcome = "upsert_failed"

\* The finally block without its handler: a failing driver.quit() raises.
quit_outcome_raises(pending, ok) == pending \/ ~ok

\* finally: try: driver.quit() except Exception: pass -- whether the harvest
\* leaves as an exception, given the one pending and how driver.quit() went.
quit_outcome(pending, ok) == pending

\* A page loop without a cap: while True.
after_page_no_cap(p, maxp) == [hpc |-> "fetch", stop |-> "none"]

\* After the last card of page p: the delay, then the next turn of the page loop.
after_page(p, maxp) ==
  [hpc |-> next_page(p, maxp), stop |-> IF p < maxp THEN "none" ELSE "max_pages"]

(* --------------------------- the token cache -------------------------- *)

no_token == [T |-> 0, E |-> 0, token |-> 0]

no_call == [kind |-> "none", src |-> "none", posted |-> FALSE, token |-> 0, prev |-> no_token]

\* expires_in = data.get("expires_in", 7200)
expires_in_of(json) ==
  IF json.expires_in = <<>> THEN DEFAULT_EXPIRES_IN ELSE json.expires_in[1]

token_expiry_no_margin(now, expires_in) == now + expires_in

\* _ebay_token_expiry = now + float(expires_in) - 60.0
token_expiry(now, expires_in) == now + expires_in - EXPIRY_MARGIN

token_cached_le(tok, expiry, now) == tok # 0 /\ now <= expiry

\* if _ebay_token and now < _ebay_token_expiry
token_cached(tok, expiry, now) == tok # 0 /\ now < expiry

(* ---------------------- the price reference client ------------------- *)

Max(S) == CHOOSE x \in S : \A y \in S : x >= y

\* s[:n]
take(s, n) == SubSeq(s, 1, Min({Len(s), n}))

\* s.lstrip(), s.rstrip(), s.strip()
RECURSIVE lstrip(_)
lstrip(s) ==
  IF s # <<>> /\ Head(s) \in Whitespace THEN lstrip(Tail(s)) ELSE s

RECURSIVE rstrip(_)
rstrip(s) ==
  IF s # <<>> /\ s[Len(s)] \in Whitespace THEN rstrip(SubSeq(s, 1, Len(s) - 1)) ELSE s

strip(s) == rstrip(lstrip(s))

is_blank_empty_only(q) == q = <<>>

\* not query or not query.strip()
is_blank(q) == q = <<>> \/ strip(q) = <<>>

search_params_cut_first(q, lim) ==
  [q |-> strip(take(q, MAX_QUERY_CHARS)),
   limit |-> Max({1, Min({lim, MAX_LIMIT})})]

\* params = {"q": query.strip()[:350], "limit": str(max(1, min(int(limit), 50)))}
search_params(q, lim) ==
  [q |-> take(strip(q), MAX_QUERY_CHARS),
   limit |-> Max({1, Min({lim, MAX_LIMIT})})]

\* (s or "USD").upper()
upper_or_usd(c) ==
  IF c = "" THEN "USD" ELSE IF c = "eur" THEN "EUR" ELSE c

\* format_ebay_price(value, currency): the symbol or code, and where it stands.
format_ebay_price(value, currency) ==
  LET c == upper_or_usd(currency)
  IN IF c = "USD" THEN [before |-> "$", value |-> value, after |-> ""]
     ELSE IF c = "EUR" THEN [before |-> "€", value |-> value, after |-> ""]
     ELSE [before |-> "", value |-> value, after |-> c]

no_price == [before |-> "", value |-> 0, after |-> ""]

\* The band returned for a blank query and for a response without a price;
\* minPrice, maxPrice and currency are None (null TRUE).
no_match ==
  [kind |-> "band", listings |-> <<>>, total |-> 0, null |-> TRUE,
   minPrice |-> no_price, maxPrice |-> no_price, currency |-> ""]

\* No call has returned.
no_band == [no_match EXCEPT !.kind = "none"]

\* The call raised.
raised_band == [no_match EXCEPT !.kind = "raised"]

\* The loop over item_summaries: listings, prices and currency so far.
RECURSIVE collect(_, _)
collect(items, acc) ==
  IF items = <<>> THEN acc
  ELSE LET item == Head(items)
           cur == upper_or_usd(item.currency)
       IN IF item.value.kind # "number"
          THEN collect(Tail(items), acc)
          ELSE collect(Tail(items),
                 [listings |-> Append(acc.listings,
                                 [price |-> format_ebay_price(item.value.n, cur),
                                  priceValue |-> item.value.n,
                                  currency |-> cur]),
                  prices |-> Append(acc.prices, item.value.n),
                  currency |-> IF acc.currency # "" THEN acc.currency ELSE cur])

\* data.get("total") or len(listings)
total_or_len(total, n) == IF total = <<>> \/ total[1] = 0 THEN n ELSE total[1]

price_band_first_last(d) ==
  LET got == collect(d.itemSummaries, [listings |-> <<>>, prices |-> <<>>, currency |-> ""])
  IN IF got.prices = <<>> THEN no_match
     ELSE [kind |-> "band", listings |-> got.listings,
           total |-> total_or_len(d.total, Len(got.listings)), null |-> FALSE,
           minPrice |-> format_ebay_price(got.prices[1], got.currency),
           maxPrice |-> format_ebay_price(got.prices[Len(got.prices)], got.currency),
           currency |-> got.currency]

\* What search_ebay_current_listings makes of a successful response.
price_band(d) ==
  LET got == collect(d.itemSummaries, [listings |-> <<>>, prices |-> <<>>, currency |-> ""])
      vals == {got.prices[i] : i \in 1..Len(got.prices)}
  IN IF got.prices = <<>> THEN no_match
     ELSE [kind |-> "band", listings |-> got.listings,
           total |-> total_or_len(d.total, Len(got.listings)), null |-> FALSE,
           minPrice |-> format_ebay_price(Min(vals), got.currency),
           maxPrice |-> format_ebay_price(Max(vals), got.currency),
           currency |-> got.currency]

\* No card is being enriched: the search was called on its own.
no_card == [src |-> "none", year |-> 0, outcome |-> "none"]

(* ------------------------------- Init --------------------------------- *)

\* The process has just started: nothing harvested, nothing cached.
Start ==
  /\ mode \in Modes
  /\ pc = IF mode = "both" THEN "check_quota" ELSE mode
  /\ cycle = 0
  /\ clock = 0
  /\ remaining = 1
  /\ marker = [s \in Sources |-> <<>>]
  /\ events = <<>>
  /\ hpc = IF mode = "both" THEN "idle" ELSE "open"
  /\ page = 0
  /\ liked = <<>>
  /\ hadRaw = FALSE
  /\ hadLiked = FALSE
  /\ exc = FALSE
  /\ stop = "none"
  /\ lastOutcome = no_outcome
  /\ driverOpen = FALSE
  /\ store = <<>>
  /\ ebay_token = [s \in Sources |-> 0]
  /\ ebay_token_expiry = [s \in Sources |-> 0]
  /\ obtained = [s \in Sources |-> no_token]
  /\ lastCall = no_call
  /\ ticks = 0
  /\ spc = "idle"
  /\ card = no_card
  /\ query = <<>>
  /\ limit = 0
  /\ sent = <<>>
  /\ data = <<>>
  /\ band = no_band
  /\ rpc = "idle"
  /\ partial = <<>>
  /\ ref = <<>>

Init ==
  /\ Start
  /\ creds = TRUE
  /\ site = <<>>

(* ---------------------------- the scheduler --------------------------- *)

\* run_cycle, up to the quota gate.
run_cycle_quota ==
  /\ pc = "check_quota"
  /\ \E r \in get_ebay_browse_remaining :
       /\ remaining' = r
       /\ pc' = quota_gate(r)
  /\ UNCHANGED <<config, rerun, oauth, client, cycle, clock, marker, events, hpc, walk, driverOpen, store>>

\* Both markers written up front, before the first harvest.
run_cycle_both_markers ==
  /\ pc = "save_vinted"
  /\ marker' = [s \in Sources |-> <<clock>>]
  /\ events' = Append(events, <<"mark", "vinted">>)
  /\ pc' = "vinted"
  /\ hpc' = "open"
  /\ UNCHANGED <<config, rerun, oauth, client, cycle, clock, remaining, walk, driverOpen, store>>

\* run_cycle: scrape_vinted.save_vinted_last_update(start), then the call of
\* scrape_once.
run_cycle_vinted ==
  /\ pc = "save_vinted"
  /\ marker' = save_last_update(marker, "vinted", clock)
  /\ events' = Append(events, <<"mark", "vinted">>)
  /\ pc' = "vinted"
  /\ hpc' = "open"
  /\ UNCHANGED <<config, rerun, oauth, client, cycle, clock, remaining, walk, driverOpen, store>>

\* run_cycle: scrape_catawiki.save_catawiki_last_update(catawiki_start), then
\* the call of scrape_category.
run_cycle_catawiki ==
  /\ pc = "save_catawiki"
  /\ marker' = save_last_update(marker, "catawiki", clock)
  /\ events' = Append(events, <<"mark", "catawiki">>)
  /\ pc' = "catawiki"
  /\ hpc' = "open"
  /\ UNCHANGED <<config, rerun, oauth, client, cycle, clock, remaining, walk, driverOpen, store>>

\* time.sleep(...) and the next turn of the while True loop.
Sleep ==
  /\ pc = "sleep"
  /\ cycle < MaxCycles
  /\ cycle' = cycle + 1
  /\ clock' = clock + interval
  /\ events' = <<>>
  /\ pc' = IF mode = "both" THEN "check_quota" ELSE mode
  /\ hpc' = IF mode = "both" THEN "idle" ELSE "open"
  /\ UNCHANGED <<config, rerun, oauth, client, remaining, marker, walk, driverOpen, store>>

(* ----------------------------- a harvest ------------------------------ *)

\* The harvest of src returns (raised = FALSE) or raises to its caller.
EndHarvest(src, raised) ==
  /\ events' = Append(events, <<IF raised THEN "raised" ELSE "done", src>>)
  /\ pc' = after_harvest(src, raised)
  /\ hpc' = "idle"
  /\ page' = 0
  /\ liked' = <<>>
  /\ hadRaw' = FALSE
  /\ hadLiked' = FALSE
  /\ exc' = FALSE
  /\ stop' = "none"
  /\ lastOutcome' = no_outcome

\* MongoClient(...) and create_driver(), both before the try block.
Open(src) ==
  /\ pc = src
  /\ hpc = "open"
  /\ \E ok \in BOOLEAN :
       IF ok
       THEN /\ driverOpen' = TRUE
            /\ hpc' = IF src = "vinted" THEN "home" ELSE "fetch"
            /\ UNCHANGED <<pc, events, walk>>
       ELSE /\ EndHarvest(src, TRUE)
            /\ UNCHANGED driverOpen
  /\ UNCHANGED <<config, rerun, oauth, client, sched, store>>

\* scrape_once: driver.get(BASE_URL), inside the try block.
Home ==
  /\ pc = "vinted"
  /\ hpc = "home"
  /\ \E ok \in BOOLEAN :
       IF ok
       THEN /\ hpc' = "fetch"
            /\ UNCHANGED <<exc, stop>>
       ELSE /\ hpc' = "quit"
            /\ exc' = TRUE
            /\ stop' = "exception"
  /\ UNCHANGED <<config, rerun, oauth, client, sched, pc, events, page, liked, hadRaw, hadLiked,
                 lastOutcome, driverOpen, store>>

\* What both page loops do once a page has been parsed into items.
PageParsed(items, l, verdict, maxp) ==
  /\ hadRaw' = (Len(items) > 0)
  /\ hadLiked' = (Len(l) > 0)
  /\ UNCHANGED exc
  /\ IF verdict # "none"
     THEN /\ liked' = <<>>
          /\ stop' = verdict
          /\ hpc' = "quit"
     ELSE IF l = <<>>
     THEN /\ liked' = <<>>
          /\ stop' = after_page(page + 1, maxp).stop
          /\ hpc' = after_page(page + 1, maxp).hpc
     ELSE /\ liked' = l
          /\ stop' = "none"
          /\ hpc' = "item"

PageFailed(r) ==
  /\ hadRaw' = FALSE
  /\ hadLiked' = FALSE
  /\ liked' = <<>>
  /\ hpc' = r.hpc
  /\ exc' = r.exc
  /\ stop' = r.stop

\* scrape_once: one turn of the page loop up to the loop over liked.
fetch_vinted_page_html ==
  /\ pc = "vinted"
  /\ hpc = "fetch"
  /\ page' = page + 1
  /\ lastOutcome' = no_outcome
  /\ \/ PageFailed(vinted_fetch_raises)
     \/ \E items \in PageContents :
          PageParsed(items, vinted_liked(items),
                     vinted_page_verdict(Len(items), Len(vinted_liked(items))),
                     VINTED_MAX_PAGES)
  /\ UNCHANGED <<config, rerun, oauth, client, sched, pc, events, driverOpen, store>>

\* scrape_category: one turn of the page loop up to the loop over liked_items.
fetch_page_html ==
  /\ pc = "catawiki"
  /\ hpc = "fetch"
  /\ page' = page + 1
  /\ lastOutcome' = no_outcome
  /\ \/ PageFailed(catawiki_fetch_raises)
     \/ \E items \in PageContents :
          PageParsed(items, catawiki_liked(items),
                     catawiki_page_verdict(Len(items), Len(catawiki_liked(items))),
                     max_pages)
  /\ UNCHANGED <<config, rerun, oauth, client, sched, pc, events, driverOpen, store>>

\* The end of the handling of one card: the next card, the next page, or out.
\* ebay is what search_ebay_current_listings gave the card ("none": not called).
CardDone(outcome, doc, ebay, maxp) ==
  /\ lastOutcome' = [kind |-> outcome, doc |-> IF outcome = "upserted" THEN doc ELSE no_doc,
                     ebay |-> ebay]
  /\ store' = IF outcome = "upserted" THEN update_one(store, doc, clock) ELSE store
  /\ IF card_raises(outcome)
     THEN /\ liked' = <<>>
          /\ exc' = TRUE
          /\ stop' = "exception"
          /\ hpc' = "quit"
     ELSE /\ liked' = Tail(liked)
          /\ UNCHANGED exc
          /\ IF Tail(liked) = <<>>
             THEN /\ stop' = after_page(page, maxp).stop
                  /\ hpc' = after_page(page, maxp).hpc
             ELSE /\ stop' = "none"
                  /\ hpc' = "item"

\* The calls a card leads to once it has a year and an id:
\* search_ebay_current_listings, then update_one.
Enrich(src, y, id, maxp) ==
  \E ebay \in EbayOutcomes :
    IF ebay = "band"
    THEN \E db \in DbOutcomes :
           CardDone(card_outcome(TRUE, id, ebay, db), new_doc(src, id, y, Head(liked), clock),
                    ebay, maxp)
    ELSE CardDone(card_outcome(TRUE, id, ebay, "ok"), new_doc(src, id, y, Head(liked), clock),
                  ebay, maxp)

\* scrape_once: one card of liked.  The card's other fields are read only now,
\* so they are drawn now: its title, the parsed id, the id in its URL.
handle_vinted_card ==
  /\ pc = "vinted"
  /\ hpc = "item"
  /\ \E y \in TitleYears :
       IF ~title_has_year(y)
       THEN CardDone(card_outcome(FALSE, 0, "error", "ok"), no_doc, "none", VINTED_MAX_PAGES)
       ELSE \E rid \in MaybeIds :
              IF rid # 0
              THEN Enrich("vinted", y, rid, VINTED_MAX_PAGES)
              ELSE \E uid \in MaybeIds :
                     IF uid # 0
                     THEN Enrich("vinted", y, uid, VINTED_MAX_PAGES)
                     ELSE CardDone(card_outcome(TRUE, 0, "error", "ok"), no_doc, "none", VINTED_MAX_PAGES)
  /\ UNCHANGED <<config, rerun, oauth, client, sched, pc, events, page, hadRaw, hadLiked, driverOpen>>

\* scrape_category: one card of liked_items; the lot id comes from the URL.
handle_catawiki_card ==
  /\ pc = "catawiki"
  /\ hpc = "item"
  /\ \E y \in TitleYears :
       IF ~catawiki_title_has_year(y)
       THEN CardDone(card_outcome(FALSE, 0, "error", "ok"), no_doc, "none", max_pages)
       ELSE \E lot_id \in MaybeIds :
              IF lot_id # 0
              THEN Enrich("catawiki", y, lot_id, max_pages)
              ELSE CardDone(card_outcome(TRUE, 0, "error", "ok"), no_doc, "none", max_pages)
  /\ UNCHANGED <<config, rerun, oauth, client, sched, pc, events, page, hadRaw, hadLiked, driverOpen>>

\* The finally block: driver.quit(), whose failure is swallowed; then the
\* function returns or the pending exception goes on to the caller.
Quit(src) ==
  /\ pc = src
  /\ hpc = "quit"
  /\ driverOpen' = FALSE
  /\ \E ok \in BOOLEAN : EndHarvest(src, quit_outcome(exc, ok))
  /\ UNCHANGED <<config, rerun, oauth, client, sched, store>>

Next ==
  \/ run_cycle_quota
  \/ run_cycle_vinted
  \/ run_cycle_catawiki
  \/ Sleep
  \/ \E src \in Sources : Open(src)
  \/ Home
  \/ fetch_vinted_page_html
  \/ fetch_page_html
  \/ handle_vinted_card
  \/ handle_catawiki_card
  \/ \E src \in Sources : Quit(src)

Spec == Init /\ [][Next]_vars

FairSpec == Spec /\ WF_vars(Next)

(* --------------------- the token cache on its own --------------------- *)

\* get_ebay_access_token() resetting its globals when the exchange is rejected.
get_token_forgets(src) ==
  /\ LET call(kind, posted, tok) ==
           [kind |-> kind, src |-> src, posted |-> posted, token |-> tok,
            prev |-> obtained[src]]
     IN IF ~creds
        THEN /\ lastCall' = call("raised", FALSE, 0)
             /\ UNCHANGED <<ebay_token, ebay_token_expiry, obtained>>
        ELSE IF token_cached(ebay_token[src], ebay_token_expiry[src], clock)
        THEN /\ lastCall' = call("returned", FALSE, ebay_token[src])
             /\ UNCHANGED <<ebay_token, ebay_token_expiry, obtained>>
        ELSE \E resp \in Responses :
               IF ~resp.ok
               THEN /\ lastCall' = call("raised", TRUE, 0)
                    /\ ebay_token' = [ebay_token EXCEPT ![src] = 0]
                    /\ ebay_token_expiry' = [ebay_token_expiry EXCEPT ![src] = 0]
                    /\ UNCHANGED obtained
               ELSE /\ ebay_token' = [ebay_token EXCEPT ![src] = resp.access_token]
                    /\ ebay_token_expiry' =
                         [ebay_token_expiry EXCEPT
                            ![src] = token_expiry(clock, expires_in_of(resp))]
                    /\ obtained' =
                         [obtained EXCEPT
                            ![src] = [T |-> clock, E |-> expires_in_of(resp),
                                      token |-> resp.access_token]]
                    /\ lastCall' = call("returned", TRUE, resp.access_token)

\* The body of get_ebay_access_token() of module src, called at time clock.
get_token(src) ==
  /\ LET call(kind, posted, tok) ==
           [kind |-> kind, src |-> src, posted |-> posted, token |-> tok,
            prev |-> obtained[src]]
     IN IF ~creds
        THEN /\ lastCall' = call("raised", FALSE, 0)
             /\ UNCHANGED <<ebay_token, ebay_token_expiry, obtained>>
        ELSE IF token_cached(ebay_token[src], ebay_token_expiry[src], clock)
        THEN /\ lastCall' = call("returned", FALSE, ebay_token[src])
             /\ UNCHANGED <<ebay_token, ebay_token_expiry, obtained>>
        ELSE \E resp \in Responses :
               IF ~resp.ok
               THEN /\ lastCall' = call("raised", TRUE, 0)
                    /\ UNCHANGED <<ebay_token, ebay_token_expiry, obtained>>
               ELSE /\ ebay_token' = [ebay_token EXCEPT ![src] = resp.access_token]
                    /\ ebay_token_expiry' =
                         [ebay_token_expiry EXCEPT
                            ![src] = token_expiry(clock, expires_in_of(resp))]
                    /\ obtained' =
                         [obtained EXCEPT
                            ![src] = [T |-> clock, E |-> expires_in_of(resp),
                                      token |-> resp.access_token]]
                    /\ lastCall' = call("returned", TRUE, resp.access_token)

\* get_ebay_access_token() of module src, called on its own.
get_ebay_access_token(src) ==
  /\ mode \in {"both", src}
  /\ get_token(src)
  /\ UNCHANGED <<config, rerun, clock, creds, ticks, pipeline, client>>

\* Time passes between two calls (the throttle, the page loads, the sleeps).
Elapse ==
  /\ ticks < MaxTicks
  /\ \E d \in Deltas : clock' = clock + d
  /\ ticks' = ticks + 1
  /\ lastCall' = no_call
  /\ UNCHANGED <<config, rerun, creds, ebay_token, ebay_token_expiry, obtained, pipeline,
                 client>>

TokenInit ==
  /\ Start
  /\ creds \in BOOLEAN
  /\ site = <<>>

TokenNext ==
  \/ \E src \in Sources : get_ebay_access_token(src)
  \/ Elapse

TokenSpec == TokenInit /\ [][TokenNext]_vars

(* ----------------- the price reference client on its own -------------- *)

\* search_ebay_current_listings(q, lim) up to its first external call: the
\* blank query returns at once.
enter_search(q, lim) ==
  /\ query' = q
  /\ limit' = lim
  /\ sent' = <<>>
  /\ data' = <<>>
  /\ lastCall' = no_call
  /\ IF is_blank(q)
     THEN /\ band' = no_match
          /\ spc' = "return"
     ELSE /\ band' = no_band
          /\ spc' = "token"

\* The card loop of harvester src takes a liked card: the year pattern, then
\* the call search_ebay_current_listings(title[:200], limit=5).
begin_card(src) ==
  /\ mode \in {"both", src}
  /\ spc = "idle"
  /\ store = <<>>
  /\ \E y \in Years :
       IF IF src = "vinted" THEN title_has_year(y) ELSE catawiki_title_has_year(y)
       THEN /\ card' = [src |-> src, year |-> y, outcome |-> "pending"]
            /\ enter_search(take(Title(y), TITLE_CHARS), HARVEST_LIMIT)
       ELSE /\ card' = [src |-> src, year |-> y,
                        outcome |-> card_outcome(FALSE, 1, "error", "ok")]
            /\ query' = <<>>
            /\ limit' = 0
            /\ sent' = <<>>
            /\ data' = <<>>
            /\ lastCall' = no_call
            /\ band' = no_band
            /\ spc' = "idle"
  /\ UNCHANGED <<config, rerun, clock, pipeline, creds, ebay_token, ebay_token_expiry,
                 obtained, ticks>>

\* search_ebay_current_listings(query, limit) of module src, called with
\* arguments of the given sets.
search_ebay_current_listings(src, queries, limits) ==
  /\ mode \in {"both", src}
  /\ spc = "idle"
  /\ store = <<>>
  /\ card' = [src |-> src, year |-> 0, outcome |-> "none"]
  /\ \E q \in queries, lim \in limits : enter_search(q, lim)
  /\ UNCHANGED <<config, rerun, clock, pipeline, creds, ebay_token, ebay_token_expiry,
                 obtained, ticks>>

after_token_goes_on(kind) == "get"

\* An exception of get_ebay_access_token leaves search_ebay_current_listings
\* at once; otherwise the search request is next.
after_token(kind) == IF kind = "raised" THEN "return" ELSE "get"

\* token = get_ebay_access_token().  In scrape_vinted the throttle
\* time.sleep(1) comes first; the calls followed here all fall within the
\* lifetime of a token, so the clock is left where it is (TokenSpec lets time
\* pass between calls).
search_token ==
  /\ spc = "token"
  /\ get_token(card.src)
  /\ spc' = after_token(lastCall'.kind)
  /\ band' = IF lastCall'.kind = "raised" THEN raised_band ELSE band
  /\ UNCHANGED <<config, rerun, clock, pipeline, creds, ticks, card, query, limit, sent, data>>

\* requests.get(EBAY_BROWSE_SEARCH_URL, ...) and what is made of the response.
search_get(responses) ==
  /\ spc = "get"
  /\ sent' = <<search_params(query, limit)>>
  /\ \E ok \in BOOLEAN :
       IF ok
       THEN \E d \in responses :
              /\ data' = <<d>>
              /\ band' = price_band(d)
       ELSE /\ data' = <<>>
            /\ band' = raised_band
  /\ spc' = "return"
  /\ UNCHANGED <<config, rerun, clock, pipeline, oauth, card, query, limit>>

ebay_outcome_keeps_empty(b) ==
  IF b.kind = "raised" THEN "error" ELSE "band"

\* What the result of the call counts as in the card loop.
ebay_outcome(b) ==
  IF b.kind = "raised" THEN "error"
  ELSE IF b.listings = <<>> THEN "empty"
  ELSE "band"

\* The call returns or raises; a card loop then skips the card or upserts it.
search_return ==
  /\ spc = "return"
  /\ spc' = "idle"
  /\ IF card.year = 0
     THEN UNCHANGED <<card, store>>
     ELSE \E db \in IF ebay_outcome(band) = "band" THEN DbOutcomes ELSE {"ok"} :
            LET out == card_outcome(TRUE, 1, ebay_outcome(band), db)
            IN /\ card' = [card EXCEPT !.outcome = out]
               /\ store' = IF out = "upserted"
                            THEN update_one(store,
                                   new_doc(card.src, 1, card.year, VINTED_MIN_LIKES, clock),
                                   clock)
                            ELSE store
  /\ UNCHANGED <<config, rerun, clock, loops, oauth, query, limit, sent, data, band>>

ClientNext ==
  \/ \E src \in Sources : begin_card(src)
  \/ \E src \in Sources : search_ebay_current_listings(src, Queries, Limits)
  \/ search_token
  \/ search_get(ShortResponses)
  \/ search_return

\* A harvester run on its own, with or without credentials.
ClientInit ==
  /\ Start
  /\ mode # "both"
  /\ creds \in BOOLEAN
  /\ site = <<>>

\* The calls of one harvester process, one after the other, up to the first
\* card that is persisted.
ClientSpec == ClientInit /\ [][ClientNext]_vars

(* --------------------- the price band on its own ---------------------- *)

BandInit ==
  /\ Start
  /\ mode = "vinted"
  /\ creds = TRUE
  /\ site = <<>>

BandNext ==
  \/ search_ebay_current_listings("vinted", {<<" ", "a", " ">>}, Limits)
  \/ search_token
  \/ search_get(SearchResponses)
  \/ search_return

\* search_ebay_current_listings called with any arguments and answered with
\* any response.
BandSpec == BandInit /\ [][BandNext]_vars

(* ------------------ a harvest killed and run again -------------------- *)

\* The page cap of a harvest of src.
MaxPagesOf(src) == IF src = "vinted" THEN VINTED_MAX_PAGES ELSE max_pages

\* The minimum likes of a harvest of src.
MinLikesOf(src) == IF src = "vinted" THEN VINTED_MIN_LIKES ELSE CATAWIKI_MIN_LIKES

\* A card as the marketplace and the reference API answer for it: its likes,
\* the year token of its title, its id (0: none can be determined) and what
\* search_ebay_current_listings gives for its title.
site_card(likes, year, id, ebay) == [likes |-> likes, year |-> year, id |-> id, ebay |-> ebay]

\* The pages a marketplace may serve.
SitePages ==
  { <<>>,
    <<site_card(10, 2022, 1, "band")>>,
    <<site_card(10, 2022, 1, "band"), site_card(12, 2022, 2, "band")>>,
    <<site_card(12, 2022, 2, "band"), site_card(11, 1999, 1, "band")>>,
    <<site_card(9, 2022, 2, "band"), site_card(10, 1960, 1, "band")>>,
    <<site_card(10, 2022, 2, "empty"), site_card(10, 2022, 1, "error"),
      site_card(10, 1999, 0, "band"), site_card(11, 2022, 2, "band")>>,
    <<site_card(9, 2022, 1, "band")>> }

RECURSIVE Sites(_)
Sites(n) ==
  IF n = 0 THEN {<<>>}
  ELSE {Append(s, pg) : s \in Sites(n - 1), pg \in SitePages}

\* The liked cards of a page, in page order.
liked_cards(src, items) == SelectSeq(items, LAMBDA c : c.likes >= MinLikesOf(src))

\* The year test of the harvest of src.
has_year(src, y) == IF src = "vinted" THEN title_has_year(y) ELSE catawiki_title_has_year(y)

\* The card loop over the first k cards of a page's liked list, with the store
\* answering every update_one: the collection it leaves.
RECURSIVE handle_cards(_, _, _, _, _)
handle_cards(src, col, cards, now, k) ==
  IF cards = <<>> \/ k = 0 THEN col
  ELSE LET c == Head(cards)
           outcome == card_outcome(has_year(src, c.year), c.id, c.ebay, "ok")
           next == IF outcome = "upserted"
                   THEN update_one(col, new_doc(src, c.id, c.year, c.likes, now), now)
                   ELSE col
       IN handle_cards(src, next, Tail(cards), now, k - 1)

\* The page loop from page p on, killed once k more cards have been handled;
\* a page past the last one the marketplace serves parses to no card.
RECURSIVE walk_pages(_, _, _, _, _, _)
walk_pages(src, col, pages, p, now, k) ==
  LET items == IF p <= Len(pages) THEN pages[p] ELSE <<>>
      l == liked_cards(src, items)
      verdict == IF src = "vinted"
                 THEN vinted_page_verdict(Len(items), Len(l))
                 ELSE catawiki_page_verdict(Len(items), Len(l))
  IN IF verdict # "none" \/ k = 0 THEN col
     ELSE IF k <= Len(l) \/ next_page(p, MaxPagesOf(src)) # "fetch"
     THEN handle_cards(src, col, l, now, k)
     ELSE walk_pages(src, handle_cards(src, col, l, now, k), pages, p + 1, now, k - Len(l))

RECURSIVE CardCount(_)
CardCount(pages) == IF pages = <<>> THEN 0 ELSE Len(Head(pages)) + CardCount(Tail(pages))

\* scrape_once() / scrape_category(), run to its end at time now.
harvest(src, col, pages, now) == walk_pages(src, col, pages, 1, now, CardCount(pages) + 1)

\* A harvest of src is killed after some number of cards; ref is what it would
\* have left had it run on.
harvest_killed(src) ==
  /\ mode = src
  /\ rpc = "idle"
  /\ \E k \in 0..CardCount(site) :
       store' = walk_pages(src, store, site, 1, clock, k)
  /\ partial' = store'
  /\ ref' = harvest(src, store, site, clock)
  /\ rpc' = "killed"
  /\ UNCHANGED <<config, site, oauth, client, loops, clock>>

\* The harvest is run again, from page 1, some time later.
harvest_rerun(src) ==
  /\ mode = src
  /\ rpc = "killed"
  /\ \E d \in Deltas :
       /\ clock' = clock + d
       /\ store' = harvest(src, store, site, clock + d)
  /\ rpc' = "done"
  /\ UNCHANGED <<config, site, partial, ref, oauth, client, loops>>

RerunInit ==
  /\ Start
  /\ mode # "both"
  /\ creds = TRUE
  /\ site \in Sites(MaxPages)

RerunNext ==
  \/ \E src \in Sources : harvest_killed(src)
  \/ \E src \in Sources : harvest_rerun(src)

RerunSpec == RerunInit /\ [][RerunNext]_vars

(* ------------------------------ claims -------------------------------- *)

MarkOf(src) == <<"mark", src>>

EndOf(e, src) == e \in {<<"done", src>>, <<"raised", src>>}

\* The events of a cycle of the combined scheduler that ran, up to length n.
CycleShape(n) ==
  /\ Len(events) = n
  /\ n >= 1 => events[1] = MarkOf("vinted")
  /\ n >= 2 => EndOf(events[2], "vinted")
  /\ n >= 3 => events[3] = MarkOf("catawiki")
  /\ n >= 4 => EndOf(events[4], "catawiki")

\* C1: in the combined scheduler, a cycle whose quota check reports
\* remaining <= 0 writes no CycleMarker, invokes no harvest, and sleeps the
\* full SLEEP_SECONDS before the next quota check.
C1_QuotaSkip ==
  /\ [](mode = "both" /\ pc = "sleep" /\ remaining <= 0
          => events = <<>> /\ hpc = "idle")
  /\ [][mode = "both" /\ pc = "check_quota" /\ remaining' <= 0
          => pc' = "sleep" /\ marker' = marker /\ store' = store /\ hpc' = "idle"]_vars
  /\ [][mode = "both" /\ pc = "sleep" /\ remaining <= 0
          => /\ marker' = marker
             /\ store' = store
             /\ pc' = "check_quota"
             /\ clock' = clock + SLEEP_SECONDS]_vars

\* A skipped cycle has been slept through and the next quota check is due.
C1_Witness ==
  /\ mode = "both"
  /\ pc = "check_quota"
  /\ cycle = 1
  /\ remaining <= 0
  /\ clock = SLEEP_SECONDS
  /\ marker = [s \in Sources |-> <<>>]

\* C2: in a cycle that passed the gate, when the first source's harvest raises,
\* the second source's marker is still written and its harvest still invoked
\* in the same cycle.
C2_SiblingStillRuns ==
  (mode = "both" /\ Len(events) >= 2 /\ events[2] = <<"raised", "vinted">>)
    => /\ pc \in {"save_catawiki", "catawiki", "sleep"}
       /\ pc = "save_catawiki" => hpc = "idle" /\ Len(events) = 2
       /\ pc = "catawiki"
            => /\ hpc # "idle"
               /\ Len(events) = 3
               /\ events[3] = MarkOf("catawiki")
               /\ marker["catawiki"] = <<clock>>
       /\ pc = "sleep"
            => /\ Len(events) = 4
               /\ events[3] = MarkOf("catawiki")
               /\ EndOf(events[4], "catawiki")
               /\ marker["catawiki"] = <<clock>>

\* The first harvest raised and the second one ran to its end in that cycle.
C2_Witness ==
  /\ mode = "both"
  /\ pc = "sleep"
  /\ Len(events) = 4
  /\ events[2] = <<"raised", "vinted">>
  /\ events[4] = <<"done", "catawiki">>

\* C3: whatever the harvests raise, every scheduler loop (combined and
\* standalone) reaches its sleep, and from its sleep starts the next cycle.
C3_LoopGoesOn ==
  /\ (pc # "sleep") ~> (pc = "sleep")
  /\ \A c \in 0..(MaxCycles - 1) :
       (pc = "sleep" /\ cycle = c) ~> (pc # "sleep" /\ cycle = c + 1)

\* A standalone loop is in its second cycle's sleep after a harvest that raised.
C3_Witness ==
  /\ mode \in {"vinted", "catawiki"}
  /\ cycle = 1
  /\ pc = "sleep"
  /\ events = <<<<"raised", mode>>>>

\* C4: within one cycle of the combined scheduler: first marker, first harvest
\* from start to end, second marker, second harvest; the second marker is not
\* written while the first harvest runs, and each marker write is immediately
\* followed by the invocation of that source's harvest.
C4_CycleOrder ==
  /\ [](mode = "both"
          => /\ pc = "save_vinted" => events = <<>> /\ hpc = "idle"
             /\ pc = "vinted" => CycleShape(1) /\ hpc # "idle"
             /\ pc = "save_catawiki" => CycleShape(2) /\ hpc = "idle"
             /\ pc = "catawiki" => CycleShape(3) /\ hpc # "idle"
             /\ pc = "sleep" => (events = <<>> \/ CycleShape(4)) /\ hpc = "idle")
  /\ [][mode = "both" /\ marker' # marker
          => \E s \in Sources :
               /\ \A t \in Sources \ {s} : marker'[t] = marker[t]
               /\ marker'[s] = <<clock>>
               /\ hpc = "idle"
               /\ pc' = s
               /\ hpc' = "open"]_vars
  /\ [][mode = "both" /\ pc = "vinted" => marker'["catawiki"] = marker["catawiki"]]_vars

\* The second harvest is running after the first one ended in the same cycle.
C4_Witness ==
  /\ mode = "both"
  /\ pc = "catawiki"
  /\ hpc = "item"
  /\ CycleShape(3)
  /\ marker["vinted"] = <<clock>>
  /\ marker["catawiki"] = <<clock>>

\* The documents of col whose id is id.
Hits(col, id) == {i \in DOMAIN col : col[i].id = id}

\* C5: an upsert of an id that is already stored leaves createdAt as the first
\* upsert set it and sets every other field, updatedAt included, to the values
\* of this upsert; an upsert of a new id sets createdAt as well; either way
\* exactly one record has that id afterwards.
C5_UpsertIdempotent ==
  [][hpc = "item" /\ lastOutcome'.kind = "upserted"
       => LET d == lastOutcome'.doc
              old == Hits(store, d.id)
              new == Hits(store', d.id)
          IN /\ Cardinality(new) = 1
             /\ Cardinality(old) <= 1
             /\ \A i \in new :
                  /\ store'[i].title = d.title
                  /\ store'[i].likes = d.likes
                  /\ store'[i].source = d.source
                  /\ store'[i].updatedAt = d.updatedAt
                  /\ d.updatedAt = clock
                  /\ d.source = pc
                  /\ store'[i].createdAt =
                       IF old = {} THEN clock ELSE store[Min(old)].createdAt
             /\ \A i \in DOMAIN store : store[i].id # d.id => store'[i] = store[i]]_vars

\* A second upsert of an id, later than the first one, has just been done.
C5_Witness ==
  /\ lastOutcome.kind = "upserted"
  /\ \E i \in DOMAIN store :
       /\ store[i].id = lastOutcome.doc.id
       /\ store[i].createdAt < store[i].updatedAt
       /\ store[i].updatedAt = clock
       /\ store[i].title = 1960
  /\ Len(store) = 2

\* C6: a harvest of one source never modifies a record of the other source,
\* even when both sources produce the same numeric id.
C6_OtherSourceUntouched ==
  [][\A i \in DOMAIN store :
       (pc \in Sources /\ store[i].source # pc)
         => (i \in DOMAIN store' /\ store'[i] = store[i])]_vars

\* C7: page k+1 is fetched only if page k yielded at least one raw listing and
\* at least one liked one; at the first page without, the harvest stops: no
\* later page is fetched and nothing further is persisted.
C7_StopRule ==
  /\ [][page' = page + 1 => (page = 0 \/ (hadRaw /\ hadLiked))]_vars
  /\ [](hpc = "item" => hadRaw /\ hadLiked /\ liked # <<>>)
  /\ [](stop \in {"no_items", "no_liked"}
          => hpc = "quit" /\ ~(hadRaw /\ hadLiked) /\ liked = <<>> /\ ~exc)
  /\ [][(stop = "no_items" \/ stop = "no_liked")
          => store' = store /\ page' = 0 /\ hpc' = "idle"]_vars

\* Page 1 qualified, page 2 had cards but none liked, and the walk stopped
\* there although it is not the last page allowed.
C7_Witness ==
  /\ stop = "no_liked"
  /\ hadRaw
  /\ page >= 1
  /\ page < MaxPages
  /\ hpc = "quit"

\* C8: for either harvester a page fetch that raises stops the walk inside the
\* harvest: no exception leaves the harvest.
C8_FetchErrorStopsWalk ==
  stop = "fetch_error" => (hpc = "quit" /\ ~exc)

\* C9: when search_ebay_current_listings raises for one card, that card is not
\* persisted and the harvest goes on with the next card of the page, or with
\* the next page, as it would have after any other card.
C9_EnrichmentFailureIsolated ==
  [][hpc = "item" /\ lastOutcome'.kind = "ebay_error"
       => /\ store' = store
          /\ ~exc'
          /\ pc' = pc
          /\ page' = page
          /\ liked' = Tail(liked)
          /\ hpc' = IF Tail(liked) # <<>> THEN "item"
                    ELSE IF page < MaxPages THEN "fetch" ELSE "quit"
          /\ stop' = IF Tail(liked) = <<>> /\ page >= MaxPages THEN "max_pages" ELSE "none"]_vars

\* The search failed for a card and the next card of the same page is due.
C9_Witness ==
  /\ lastOutcome.kind = "ebay_error"
  /\ hpc = "item"
  /\ liked # <<>>
  /\ store # <<>>

\* C10: a token obtained at time T with lifetime E is returned unchanged and
\* without a token request by every call at a time t with T <= t < T + E - 60,
\* and every call at t >= T + E - 60 sends a new token request.
C10_ReuseWindow ==
  (lastCall.kind # "none" /\ lastCall.prev.token # 0) =>
    LET T == lastCall.prev.T
        E == lastCall.prev.E
    IN /\ (T <= clock /\ clock < T + E - 60) =>
            /\ lastCall.kind = "returned"
            /\ ~lastCall.posted
            /\ lastCall.token = lastCall.prev.token
       /\ clock >= T + E - 60 => lastCall.posted

\* A token with expires_in = 7200 is handed out again 7000 seconds later.
C10_Witness ==
  /\ lastCall.kind = "returned"
  /\ lastCall.prev.token # 0
  /\ lastCall.prev.E = 7200
  /\ clock = lastCall.prev.T + 7000
  /\ ~lastCall.posted
  /\ lastCall.token = lastCall.prev.token

\* C11 (as stated): the cached token is never returned at a time t within 60
\* seconds of the stored expiry (t > expiry - 60, the expiry being the stored
\* now + expires_in - 60); a call in that window fetches a fresh token.
C11_StoredExpiryMargin ==
  [][\A s \in Sources :
       (/\ lastCall'.kind # "none"
        /\ lastCall'.src = s
        /\ creds
        /\ clock > ebay_token_expiry[s] - 60) => lastCall'.posted]_vars

\* C11 (amended): the cached token is never returned at a time t at or after
\* the stored expiry (t >= expiry, the expiry being the stored
\* now + expires_in - 60): a call at such a time sends a token request, and a
\* call answered without one returns the stored token before its expiry.
C11_StoredExpiry ==
  [][\A s \in Sources :
       (lastCall'.kind # "none" /\ lastCall'.src = s /\ creds) =>
         /\ clock >= ebay_token_expiry[s] => lastCall'.posted
         /\ ~lastCall'.posted =>
              /\ lastCall'.kind = "returned"
              /\ lastCall'.token = ebay_token[s]
              /\ ebay_token[s] # 0
              /\ clock < ebay_token_expiry[s]]_vars

\* The stored token is handed out less than 60 seconds before the stored expiry.
C11_Witness ==
  /\ lastCall.kind = "returned"
  /\ ~lastCall.posted
  /\ lastCall.token # 0
  /\ clock < ebay_token_expiry[lastCall.src]
  /\ clock > ebay_token_expiry[lastCall.src] - 60

\* C12: within one process, a token request is sent only when no unexpired
\* token obtained by an earlier call of the process is cached, whichever
\* harvester's search makes the call.
C12_OneSharedCache ==
  [][\A s \in Sources :
       (lastCall'.kind # "none" /\ lastCall'.src = s /\ lastCall'.posted) =>
         \A o \in Sources : ~(ebay_token[o] # 0 /\ clock < ebay_token_expiry[o])]_vars

\* A search call has been made and has returned to its caller.
Returned == spc = "idle" /\ card.src # "none" /\ card.outcome # "no_year"

\* C13: get_ebay_access_token raises without sending a token request when the
\* client id or secret is not set, and raises when the token request is
\* answered with a non-success status; either way no search request is sent
\* for the listing and the listing is not persisted.
C13_TokenFailureAborts ==
  /\ ~creds =>
       /\ ~lastCall.posted
       /\ lastCall.kind \in {"none", "raised"}
       /\ query # <<>> /\ ~is_blank(query) /\ Returned => lastCall.kind = "raised"
  /\ lastCall.kind = "raised" =>
       /\ lastCall.posted = creds
       /\ spc \in {"return", "idle"}
       /\ sent = <<>>
       /\ data = <<>>
       /\ band = raised_band
       /\ store = <<>>
       /\ (Returned /\ card.year # 0) => card.outcome = "ebay_error"

\* A card's enrichment ended with a rejected token request.
C13_Witness ==
  /\ creds
  /\ lastCall.kind = "raised"
  /\ lastCall.posted
  /\ Returned
  /\ card.year = 2022
  /\ card.outcome = "ebay_error"

Priced == SelectSeq(data[1].itemSummaries, LAMBDA it : it.value.kind = "number")

\* C15: for every successful response with a priced item, the band's listings
\* are the response items whose price value is present and numeric, in
\* response order; minPrice and maxPrice are the least and the greatest of
\* their values; currency is the currency code of the first of them.
C15_BandAggregation ==
  (data # <<>> /\ Priced # <<>>) =>
    /\ band.kind = "band"
    /\ Len(band.listings) = Len(Priced)
    /\ \A i \in 1..Len(Priced) :
         /\ band.listings[i].priceValue = Priced[i].value.n
         /\ Priced[i].currency = "EUR" => band.listings[i].currency = "EUR"
    /\ \A i \in 1..Len(Priced) :
         band.minPrice.value <= Priced[i].value.n /\ Priced[i].value.n <= band.maxPrice.value
    /\ \E i \in 1..Len(Priced) : band.minPrice.value = Priced[i].value.n
    /\ \E i \in 1..Len(Priced) : band.maxPrice.value = Priced[i].value.n
    /\ band.currency = band.listings[1].currency
    /\ ~band.null

\* Prices 12.50 EUR, 8.00 EUR and a missing one: two listings, 8.00 to 12.50 EUR.
C15_Witness ==
  /\ data # <<>>
  /\ Len(data[1].itemSummaries) = 3
  /\ data[1].itemSummaries[1] = [value |-> [kind |-> "number", n |-> 1250], currency |-> "EUR"]
  /\ data[1].itemSummaries[2] = [value |-> [kind |-> "number", n |-> 800], currency |-> "EUR"]
  /\ data[1].itemSummaries[3].value.kind = "none"
  /\ Len(band.listings) = 2
  /\ band.minPrice = [before |-> "€", value |-> 800, after |-> ""]
  /\ band.maxPrice = [before |-> "€", value |-> 1250, after |-> ""]
  /\ band.currency = "EUR"

\* C16: a search whose response has no item with a numeric price returns
\* listings = [], total = 0 whatever total the API reported, and no minPrice,
\* maxPrice or currency; the listing being enriched is never upserted.
C16_NoMatchBand ==
  (data # <<>> /\ Priced = <<>>) =>
    /\ band.kind = "band"
    /\ band.listings = <<>>
    /\ band.total = 0
    /\ band.null
    /\ store = <<>>
    /\ (Returned /\ card.year # 0) => card.outcome = "no_listings"

\* A card was skipped on a response that reported 7 matches, none priced.
C16_Witness ==
  /\ Returned
  /\ card.year # 0
  /\ card.outcome = "no_listings"
  /\ data # <<>>
  /\ data[1].total = <<7>>
  /\ Len(data[1].itemSummaries) = 1
  /\ band = no_match

\* C17: for every response with a priced item, total is the total the API
\* reported whenever the response carries one, a reported 0 included, and is
\* the number of collected listings only when the response carries none.
C17_ReportedTotal ==
  (data # <<>> /\ Priced # <<>>) =>
    /\ data[1].total # <<>> => band.total = data[1].total[1]
    /\ data[1].total = <<>> => band.total = Len(band.listings)

\* C18: the listings of the band returned by
\* search_ebay_current_listings(query, limit) are at most
\* max(1, min(limit, 50)) whatever the response holds.
C18_BandSizeBound ==
  band.kind = "band" =>
    Len(band.listings) <= (IF limit < 1 THEN 1 ELSE IF limit > 50 THEN 50 ELSE limit)

\* Every character of q is white space.
AllWhite(q) == \A i \in 1..Len(q) : q[i] = " " \/ q[i] = "\t"

\* C19: a call with an empty or whitespace-only query returns the no-match
\* band without network activity: no token request, no search request, and
\* the token cache as it was.
C19_BlankQuery ==
  /\ []((card.src # "none" /\ card.year = 0 /\ AllWhite(query)) =>
          /\ spc \in {"return", "idle"}
          /\ band = no_match
          /\ lastCall = no_call
          /\ sent = <<>>
          /\ data = <<>>)
  /\ [][(AllWhite(query') /\ card'.src # "none" /\ card'.year = 0) =>
          /\ ebay_token' = ebay_token
          /\ ebay_token_expiry' = ebay_token_expiry
          /\ store' = store]_vars

\* A blank query was answered while a token obtained earlier stays cached.
C19_Witness ==
  /\ query = <<" ", "\t">>
  /\ Returned
  /\ band = no_match
  /\ ebay_token[card.src] # 0
  /\ ebay_token_expiry[card.src] > clock

\* How many characters of white space q begins with, and ends with.
Leading(q) ==
  CHOOSE k \in 0..Len(q) :
    /\ \A i \in 1..k : q[i] = " " \/ q[i] = "\t"
    /\ k = Len(q) \/ ~(q[k + 1] = " " \/ q[k + 1] = "\t")

Trailing(q) ==
  CHOOSE k \in 0..Len(q) :
    /\ \A i \in (Len(q) - k + 1)..Len(q) : q[i] = " " \/ q[i] = "\t"
    /\ k = Len(q) \/ ~(q[Len(q) - k] = " " \/ q[Len(q) - k] = "\t")

\* C20: the search request of a call with a non-blank query and an integer
\* limit carries limit = max(1, min(limit, 50)) and, as q, the query without
\* its leading and trailing white space, cut to its first 350 characters.
C20_RequestParams ==
  sent # <<>> =>
    LET q == sent[1].q
        n == Len(query) - Leading(query) - Trailing(query)
    IN /\ ~AllWhite(query)
       /\ sent[1].limit = (IF limit < 1 THEN 1 ELSE IF limit > 50 THEN 50 ELSE limit)
       /\ Len(q) = (IF n > 350 THEN 350 ELSE n)
       /\ \A i \in 1..Len(q) : q[i] = query[Leading(query) + i]

\* A query of 351 letters behind a blank, with limit 51, was sent as its
\* first 350 letters with limit 50.
C20_Witness ==
  /\ Len(query) = 352
  /\ limit = 51
  /\ sent # <<>>
  /\ sent[1].limit = 50
  /\ Len(sent[1].q) = 350
  /\ sent[1].q[1] = "a"

C22_PersistencePrecondition ==
  [][/\ (store' # store) => (hpc = "item" /\ lastOutcome'.kind = "upserted")
     /\ (lastOutcome'.kind = "upserted") =>
          LET d == lastOutcome'.doc
          IN /\ hpc = "item"
             /\ d.source = pc
             /\ d.likes >= MinLikesOf(pc)
             /\ d.likes = Head(liked)
             /\ IF pc = "vinted"
                THEN 1970 <= d.title /\ d.title <= 2030
                ELSE 1950 <= d.title /\ d.title <= 2049
             /\ d.id # 0
             /\ lastOutcome'.ebay = "band"
             /\ \E i \in 1..Len(store') :
                  /\ store'[i].id = d.id
                  /\ store'[i].likes = d.likes
                  /\ store'[i].title = d.title]_vars

\* The Catawiki harvest wrote a card of 1960 with 10 likes, a year the Vinted
\* pattern would have turned away.
C22_Witness ==
  /\ pc = "catawiki"
  /\ lastOutcome.kind = "upserted"
  /\ lastOutcome.ebay = "band"
  /\ lastOutcome.doc.title = 1960
  /\ lastOutcome.doc.likes = 10
  /\ \E i \in 1..Len(store) : store[i].id = lastOutcome.doc.id /\ store[i].title = 1960

\* The record of collection col with key id.
RecordOf(col, id) == col[CHOOSE i \in 1..Len(col) : col[i].id = id]

KeysOf(col) == {col[i].id : i \in 1..Len(col)}

AuthError ==
  /\ spc = "idle"
  /\ card.outcome = "ebay_error"
  /\ lastCall.kind = "raised"
  /\ lastCall.posted

\* C24: once the token exchange has been rejected for a card of a harvest, the
\* harvester makes no further call of search_ebay_current_listings, so no
\* token exchange and no search request, for the cards that are left.
C24_AuthErrorEndsEnrichment ==
  [][AuthError => (spc' = "idle" /\ ~lastCall'.posted /\ sent' = <<>>)]_vars

\* C25: a failure of update_one for a card writes nothing and is not tried
\* again: it ends the card loop and leaves the harvest as an exception through
\* the finally block; the scheduler records the raise, goes on to the sibling
\* source in the same cycle (or to its sleep), the records written before stay
\* as they are, and the cycle after the sleep starts its harvests before page 1.
C25_UpsertFailurePropagates ==
  [][/\ (hpc = "item" /\ lastOutcome'.kind = "upsert_failed") =>
          /\ store' = store
          /\ liked' = <<>>
          /\ exc'
          /\ hpc' = "quit"
          /\ pc' = pc
     /\ (hpc = "quit" /\ lastOutcome.kind = "upsert_failed") =>
          /\ events' = Append(events, <<"raised", pc>>)
          /\ store' = store
          /\ ~driverOpen'
          /\ hpc' = "idle"
          /\ pc' = (IF mode = "both" /\ pc = "vinted" THEN "save_catawiki" ELSE "sleep")
     /\ (pc = "sleep" /\ pc' # "sleep") =>
          /\ store' = store
          /\ page' = 0
          /\ liked' = <<>>
          /\ ~exc'
     /\ (hpc' = "open") => (page' = 0 /\ liked' = <<>> /\ ~exc' /\ store' = store)]_vars

\* On page 2 of the first source's harvest in the combined scheduler an upsert
\* has failed after an earlier card was written; the exception is on its way out.
C25_Witness ==
  /\ mode = "both"
  /\ pc = "vinted"
  /\ hpc = "quit"
  /\ page = 2
  /\ exc
  /\ lastOutcome.kind = "upsert_failed"
  /\ Len(store) >= 1

\* C26: no step of any harvest or cycle removes a record: every key of the
\* store is a key of the store after the step, once per key, and the record
\* under it has the createdAt it had.
C26_NeverDeletes ==
  [][/\ KeysOf(store) \subseteq KeysOf(store')
     /\ Len(store') >= Len(store)
     /\ Cardinality(KeysOf(store')) = Len(store')
     /\ \A id \in KeysOf(store) :
          RecordOf(store', id).createdAt = RecordOf(store, id).createdAt]_vars

\* In the second cycle the store holds two records; the one inserted in the
\* first cycle has been rewritten and still has the first cycle's createdAt.
C26_Witness ==
  /\ cycle = 1
  /\ Len(store) = 2
  /\ \E i \in 1..2 :
       /\ store[i].createdAt = 0
       /\ store[i].updatedAt = clock
       /\ store[3 - i].createdAt = clock
  /\ clock > 0

\* C27: every scheduler, combined or standalone, starts each cycle at the
\* quota gate: the step out of the sleep leads to the quota check, and a
\* harvest is entered only past the gate, with calls remaining.
C27_StandaloneGate ==
  [][/\ (pc = "sleep" /\ pc' # "sleep") => pc' = "check_quota"
     /\ (pc' = "vinted" /\ pc # "vinted") => (pc = "save_vinted" /\ remaining > 0)
     /\ (pc' = "catawiki" /\ pc # "catawiki") => (pc = "save_catawiki" /\ remaining > 0)]_vars

\* C28: a call of get_ebay_access_token that raises, for missing credentials
\* or a rejected exchange, leaves the cached token and expiry of both modules
\* as they were; and a call that follows a raised one at a time the calling
\* module's cached token is still short of its expiry returns that token
\* without a token request.
C28_FailedFetchKeepsCache ==
  [][/\ (lastCall'.kind = "raised") =>
          /\ ebay_token' = ebay_token
          /\ ebay_token_expiry' = ebay_token_expiry
          /\ obtained' = obtained
     /\ (lastCall.kind = "raised" /\ lastCall'.kind # "none" /\ lastCall'.src # "none") =>
          LET s == lastCall'.src
          IN (ebay_token[s] # 0 /\ clock < ebay_token_expiry[s]) =>
               /\ lastCall'.kind = "returned"
               /\ ~lastCall'.posted
               /\ lastCall'.token = ebay_token[s]]_vars

\* A token request was rejected while the module held a token past its
\* expiry: the token and the expiry are still in the cache.
C28_Witness ==
  /\ lastCall.kind = "raised"
  /\ lastCall.posted
  /\ ebay_token[lastCall.src] # 0
  /\ ebay_token_expiry[lastCall.src] <= clock
  /\ ebay_token[lastCall.src] = lastCall.prev.token

\* C29: every harvest ends.  A harvest fetches at most the page cap's number
\* of pages (page counts the fetches), each step of the card loop takes one
\* card off the page's list and writes at most one record, and a harvest that
\* is under way always comes to its end, by return or by exception.
C29_HarvestTerminates ==
  /\ [](page <= MaxPagesOf(pc))
  /\ [][/\ (hpc = "fetch") => (page' = page + 1 /\ Len(liked') <= MaxItems)
        /\ (hpc = "item") =>
             /\ Len(liked') < Len(liked)
             /\ page' = page
             /\ Len(store') <= Len(store) + 1]_vars
  /\ (hpc # "idle") ~> (hpc = "idle")

\* A standalone harvest has returned after its last page, two records written.
C29_Witness ==
  /\ mode = "catawiki"
  /\ pc = "sleep"
  /\ hpc = "idle"
  /\ events = <<<<"done", "catawiki">>>>
  /\ Len(store) = 2

\* C30: the browser session of a harvest is closed on every way out: the
\* page and card loops are left only for the finally block, the session still
\* there; the finally block leaves no session behind and hands on exactly the
\* outcome the loops had (return, or the pending exception) whether or not
\* driver.quit() fails; and no session exists while no harvest is under way.
C30_BrowserClosed ==
  [][/\ ((hpc = "home" \/ hpc = "fetch" \/ hpc = "item") /\ hpc' # hpc) =>
          /\ hpc' = "fetch" \/ hpc' = "item" \/ hpc' = "quit"
          /\ driverOpen /\ driverOpen'
     /\ (hpc = "quit") =>
          /\ driverOpen
          /\ ~driverOpen'
          /\ hpc' = "idle"
          /\ store' = store
          /\ events' = Append(events, <<IF exc THEN "raised" ELSE "done", pc>>)
     /\ (driverOpen /\ ~driverOpen') => hpc = "quit"
     /\ (hpc' = "idle" \/ hpc' = "open") => ~driverOpen']_vars

\* A standalone harvest wrote a record, then left as an exception; no
\* session is left behind.
C30_Witness ==
  /\ mode = "catawiki"
  /\ cycle = 0
  /\ pc = "sleep"
  /\ hpc = "idle"
  /\ events = <<<<"raised", "catawiki">>>>
  /\ Len(store) = 1
  /\ ~driverOpen

\* C31: with a clock that never goes back, after every step each record of
\* the store has createdAt <= updatedAt, and a record that the step inserted
\* has createdAt = updatedAt, the time of the step.
C31_CreatedBeforeUpdated ==
  [][/\ clock' >= clock
     /\ \A i \in 1..Len(store') : store'[i].createdAt <= store'[i].updatedAt
     /\ (Len(store') > Len(store)) =>
          /\ Len(store') = Len(store) + 1
          /\ store'[Len(store')].createdAt = store'[Len(store')].updatedAt
          /\ store'[Len(store')].updatedAt = clock]_vars

\* The second cycle has just rewritten the one record the first cycle
\* inserted: createdAt is the first cycle's time, updatedAt the second's.
C31_Witness ==
  /\ cycle = 1
  /\ lastOutcome.kind = "upserted"
  /\ Len(store) = 1
  /\ store[1].createdAt = 0
  /\ store[1].updatedAt = clock
  /\ store[1].createdAt < store[1].updatedAt

====
